---- MODULE Spec2Model ----
(***************************************************************************)
(* Model of arrow2_convert's typed serialize / deserialize bridge          *)
(* (src/arrow2_convert/src/serialize.rs, deserialize.rs).                  *)
(*                                                                         *)
(* A Rust type implementing ArrowField is written as the sequence of its   *)
(* constructors, e.g. Option<Vec<i32>> is <<"Option", "Vec", "i32">>.      *)
(* A Rust Option value is <<>> (None) or <<x>> (Some(x)); a Vec value is a *)
(* sequence; a result of a fallible call is a record with an `ok` field; a *)
(* call that may panic returns a record with a `panicked` field.           *)
(***************************************************************************)
EXTENDS Integers, Sequences, FiniteSets, TLC

\* ------------------------------------------------------------------ bounds
\* Longest input sequence handed to into_arrow.
MaxLen == 3
\* Most nodes (scalars, None entries and list rows, nested ones included)
\* in one input sequence.
MaxNodes == 4

\* ------------------------------------------------------- program constants
\* i32::MAX, the largest offset of MutableUtf8Array<i32> / MutableBinaryArray<i32>
\* / MutableListArray<i32, _>.
I32_MAX == 2147483647
\* arrow2::temporal_conversions::EPOCH_DAYS_FROM_CE
EPOCH_DAYS_FROM_CE == 719163
\* nanoseconds per second, the factor of NaiveDateTime::timestamp_nanos
NANOSECONDS == 1000000000

\* ------------------------------------------------------------------- types
Numerics == {"u8", "u16", "u32", "u64", "i8", "i16", "i32", "i64", "f32", "f64"}

Scalars ==
    Numerics \cup {"String", "LargeString", "bool", "NaiveDateTime", "NaiveDate",
                   "VecU8", "LargeBinary"}

ScalarTypes == {<<s>> : s \in Scalars}

OptionScalarTypes == {<<"Option", s>> : s \in Scalars}

\* Some of the types the blanket implementations for Option, Vec and LargeVec
\* add to the scalars.
NestedTypes ==
    { <<"Vec", "i32">>, <<"LargeVec", "i32">>, <<"Vec", "String">>,
      <<"Vec", "Option", "i32">>, <<"Option", "Vec", "i32">>,
      <<"Vec", "NaiveDate">>, <<"Vec", "Option", "NaiveDate">>,
      <<"Vec", "Vec", "i32">>, <<"Option", "Vec", "Vec", "i32">>,
      <<"Vec", "Vec", "String">>, <<"Option", "Vec", "Vec", "String">>,
      <<"Option", "Option", "i32">> }

Types == ScalarTypes \cup OptionScalarTypes \cup NestedTypes

IsOption(T) == T[1] = "Option"

IsList(T) == T[1] \in {"Vec", "LargeVec"}

\* --------------------------------------------------------- ArrowField
Nullability(b) == IF b THEN "nullable" ELSE "required"

ScalarDataType(s) ==
    CASE s = "u8" -> <<"UInt8">>
      [] s = "u16" -> <<"UInt16">>
      [] s = "u32" -> <<"UInt32">>
      [] s = "u64" -> <<"UInt64">>
      [] s = "i8" -> <<"Int8">>
      [] s = "i16" -> <<"Int16">>
      [] s = "i32" -> <<"Int32">>
      [] s = "i64" -> <<"Int64">>
      [] s = "f32" -> <<"Float32">>
      [] s = "f64" -> <<"Float64">>
      [] s = "String" -> <<"Utf8">>
      [] s = "LargeString" -> <<"LargeUtf8">>
      [] s = "bool" -> <<"Boolean">>
      [] s = "NaiveDateTime" -> <<"Timestamp", "Nanosecond", "None">>
      [] s = "NaiveDate" -> <<"Date32">>
      [] s = "VecU8" -> <<"Binary">>
      [] s = "LargeBinary" -> <<"LargeBinary">>

\* <T as ArrowField>::is_nullable(): the optional wrapper is always nullable,
\* all others are not.
is_nullable(T) == IsOption(T)

\* DataType::List(Field::new(name, data_type, nullable)) and its large twin.
ListDataType(large, name, nullable, dt) ==
    <<IF large THEN "LargeList" ELSE "List", name, Nullability(nullable)>> \o dt

RECURSIVE data_type(_)
\* <T as ArrowField>::data_type(): the logical type T declares.
data_type(T) ==
    IF IsOption(T) THEN data_type(Tail(T))
    ELSE IF IsList(T)
         THEN ListDataType(T[1] = "LargeVec", "item", is_nullable(Tail(T)),
                           data_type(Tail(T)))
         ELSE ScalarDataType(T[1])

\* ------------------------------------------------------ physical layouts
\* The Rust type of an array is written as a string, the same for a builder
\* and for the column it finalizes to: "Utf8<i32>" is MutableUtf8Array<i32>
\* and Utf8Array<i32>.
PrimitiveOf(s) == "Primitive<" \o s \o ">"

\* ScalarMutableArrayType with LargeString bound to the 32-bit offset builder.
ScalarMutableArrayType_LargeStringAs32(s) ==
    CASE s \in Numerics -> PrimitiveOf(s)
      [] s = "String" -> "Utf8<i32>"
      [] s = "LargeString" -> "Utf8<i32>"
      [] s = "bool" -> "Boolean"
      [] s = "NaiveDateTime" -> PrimitiveOf("i64")
      [] s = "NaiveDate" -> PrimitiveOf("i32")
      [] s = "VecU8" -> "Binary<i32>"
      [] s = "LargeBinary" -> "Binary<i64>"

\* `type MutableArrayType` of the scalar ArrowSerialize implementations
ScalarMutableArrayType(s) ==
    CASE s \in Numerics -> PrimitiveOf(s)
      [] s = "String" -> "Utf8<i32>"
      [] s = "LargeString" -> "Utf8<i64>"
      [] s = "bool" -> "Boolean"
      [] s = "NaiveDateTime" -> PrimitiveOf("i64")
      [] s = "NaiveDate" -> PrimitiveOf("i32")
      [] s = "VecU8" -> "Binary<i32>"
      [] s = "LargeBinary" -> "Binary<i64>"

\* `type ArrayType` of the scalar ArrowDeserialize implementations
ScalarArrayType(s) ==
    CASE s \in Numerics -> PrimitiveOf(s)
      [] s = "String" -> "Utf8<i32>"
      [] s = "LargeString" -> "Utf8<i64>"
      [] s = "bool" -> "Boolean"
      [] s = "NaiveDateTime" -> PrimitiveOf("i64")
      [] s = "NaiveDate" -> PrimitiveOf("i32")
      [] s = "VecU8" -> "Binary<i32>"
      [] s = "LargeBinary" -> "Binary<i64>"

ListPhysical(c) == IF c = "LargeVec" THEN "List<i64>" ELSE "List<i32>"

RECURSIVE MutableArrayType(_)
\* <T as ArrowSerialize>::MutableArrayType, outermost layout first.
MutableArrayType(T) ==
    IF IsOption(T) THEN MutableArrayType(Tail(T))
    ELSE IF IsList(T) THEN <<ListPhysical(T[1])>> \o MutableArrayType(Tail(T))
         ELSE <<ScalarMutableArrayType(T[1])>>

RECURSIVE ArrayType(_)
\* <T as ArrowDeserialize>::ArrayType: the type iter_from_array_ref downcasts to.
ArrayType(T) ==
    IF IsOption(T) THEN ArrayType(Tail(T))
    ELSE IF IsList(T) THEN ListPhysical(T[1])
         ELSE ScalarArrayType(T[1])

IsListPhysical(p) == p \in {"List<i32>", "List<i64>"}

IsVarLenPhysical(p) == p \in {"Utf8<i32>", "Utf8<i64>", "Binary<i32>", "Binary<i64>"}

IsLargePhysical(p) == p \in {"Utf8<i64>", "Binary<i64>", "List<i64>"}

\* The data type a default-constructed builder of one layout records.
PhysicalDataType(p) ==
    CASE p = "Primitive<u8>" -> <<"UInt8">>
      [] p = "Primitive<u16>" -> <<"UInt16">>
      [] p = "Primitive<u32>" -> <<"UInt32">>
      [] p = "Primitive<u64>" -> <<"UInt64">>
      [] p = "Primitive<i8>" -> <<"Int8">>
      [] p = "Primitive<i16>" -> <<"Int16">>
      [] p = "Primitive<i32>" -> <<"Int32">>
      [] p = "Primitive<i64>" -> <<"Int64">>
      [] p = "Primitive<f32>" -> <<"Float32">>
      [] p = "Primitive<f64>" -> <<"Float64">>
      [] p = "Utf8<i32>" -> <<"Utf8">>
      [] p = "Utf8<i64>" -> <<"LargeUtf8">>
      [] p = "Boolean" -> <<"Boolean">>
      [] p = "Binary<i32>" -> <<"Binary">>
      [] p = "Binary<i64>" -> <<"LargeBinary">>

\* ----------------------------------------------------------- native values
\* A String or Vec<u8> value is its bytes, run-length coded: a sequence of
\* runs [b |-> byte, n |-> count], n > 0, neighbouring runs of different bytes.
Run(b, n) == [b |-> b, n |-> n]

EmptyBytes == <<>>

\* "ab"
BytesAB == <<Run(97, 1), Run(98, 1)>>

\* "a"
BytesA == <<Run(97, 1)>>

\* A value of i32::MAX bytes: the longest a 32-bit offset column can hold.
BytesHuge == <<Run(120, I32_MAX)>>

RECURSIVE ByteLen(_)
\* <[u8]>::len()
ByteLen(bs) == IF Len(bs) = 0 THEN 0 ELSE bs[1].n + ByteLen(Tail(bs))

\* A NaiveDate is its chrono::Datelike::num_days_from_ce; a NaiveDateTime is
\* [secs |-> timestamp(), nanos |-> timestamp_subsec_nanos()].
DateTime(secs, nanos) == [secs |-> secs, nanos |-> nanos]

LeafValues(s) ==
    CASE s \in {"u8", "u16", "u32", "u64", "f32", "f64"} -> {0, 1}
      [] s \in {"i8", "i16", "i32", "i64"} -> {0, -1}
      [] s = "bool" -> {FALSE, TRUE}
      [] s = "String" -> {EmptyBytes, BytesAB, BytesHuge}
      [] s = "LargeString" -> {EmptyBytes, BytesA, BytesAB}
      [] s = "VecU8" -> {EmptyBytes, BytesAB, BytesHuge}
      [] s = "LargeBinary" -> {EmptyBytes, BytesA, BytesAB}
      [] s = "NaiveDate" -> {EPOCH_DAYS_FROM_CE - 1, EPOCH_DAYS_FROM_CE + 365}
      [] s = "NaiveDateTime" -> {DateTime(0, 0), DateTime(1, 500)}

RECURSIVE Nodes(_, _)
RECURSIVE NodesOfSeq(_, _)
\* Size of one native value: scalars and None count one, a list one more than
\* its elements.
Nodes(T, v) ==
    IF IsOption(T) THEN (IF Len(v) = 0 THEN 1 ELSE Nodes(Tail(T), v[1]))
    ELSE IF IsList(T) THEN 1 + NodesOfSeq(Tail(T), v)
         ELSE 1

NodesOfSeq(T, vs) ==
    IF Len(vs) = 0 THEN 0 ELSE Nodes(T, vs[1]) + NodesOfSeq(T, Tail(vs))

RECURSIVE Values(_, _)
RECURSIVE SeqsOf(_, _, _)
\* The native values of <T as ArrowField>::Type with at most n nodes.
Values(T, n) ==
    IF n < 1 THEN {}
    ELSE IF IsOption(T) THEN {<<>>} \cup {<<x>> : x \in Values(Tail(T), n)}
         ELSE IF IsList(T) THEN SeqsOf(Tail(T), n - 1, n - 1)
              ELSE LeafValues(T[1])

\* The sequences of at most len values of T with at most n nodes in all.
SeqsOf(T, n, len) ==
    IF len = 0 \/ n < 1 THEN {<<>>}
    ELSE {<<>>} \cup
         UNION { { <<v>> \o rest : rest \in SeqsOf(T, n - Nodes(T, v), len - 1) }
                 : v \in Values(T, n) }

Inputs(T) == SeqsOf(T, MaxNodes, MaxLen)

\* ------------------------------------------------------ mutable arrays
\* Every array, mutable or finalized, is a record
\*   phys      its concrete Rust type (what a downcast tests)
\*   data_type the logical type it records
\*   offsets   the offset buffer (variable-length and list layouts)
\*   values    the value buffer / the child array of a list
\*   validity  one flag per slot (an absent bitmap is all TRUE)
Array(p, dt, offs, vals, valid) ==
    [phys |-> p, data_type |-> dt, offsets |-> offs, values |-> vals,
     validity |-> valid]

NoArray == Array("none", <<>>, <<>>, <<>>, <<>>)

ArrayLen(arr) == Len(arr.validity)

\* MutablePrimitiveArray::from(data_type), MutableUtf8Array::default(), ...:
\* an empty builder of a flat layout recording dt.
EmptyFlat(p, dt) == Array(p, dt, IF IsVarLenPhysical(p) THEN <<0>> ELSE <<>>, <<>>, <<>>)

\* MutableListArray::new_from(values, data_type, 0)
EmptyList(p, dt, child) == Array(p, dt, <<0>>, child, <<>>)

\* ListArray::<O>::default_datatype: the child field is named "item" and is
\* nullable.
default_datatype(p, dt) == ListDataType(IsLargePhysical(p), "item", TRUE, dt)

RECURSIVE DefaultArray(_)
\* <M as Default>::default() for the builder type mt.
DefaultArray(mt) ==
    IF IsListPhysical(mt[1])
    THEN LET child == DefaultArray(Tail(mt))
         IN EmptyList(mt[1], default_datatype(mt[1], child.data_type), child)
    ELSE EmptyFlat(mt[1], PhysicalDataType(mt[1]))

\* MutableListArray::new_with_field(values, name, nullable)
new_with_field(p, values, name, nullable) ==
    EmptyList(p, ListDataType(IsLargePhysical(p), name, nullable, values.data_type),
              values)

RECURSIVE new_array(_)
\* <T as ArrowSerialize>::new_array(): the trait's default body unless the
\* implementation for T overrides it (NaiveDateTime, NaiveDate, Vec, LargeVec).
new_array(T) ==
    IF IsList(T)
    THEN new_with_field(ListPhysical(T[1]), new_array(Tail(T)), "item",
                        is_nullable(Tail(T)))
    ELSE IF T[1] \in {"NaiveDateTime", "NaiveDate"}
         THEN EmptyFlat(ScalarMutableArrayType(T[1]), data_type(T))
         ELSE DefaultArray(MutableArrayType(T))

Ok(arr) == [ok |-> TRUE, arr |-> arr, err |-> <<>>]

Err(arr, e) == [ok |-> FALSE, arr |-> arr, err |-> e]

\* ArrowError::Overflow
OverflowError == <<"Overflow">>

LastOffset(arr) == arr.offsets[Len(arr.offsets)]

\* O::from_usize(cur + add) is None: the sum does not fit the offset type.
\* Lengths in the model stay far below i64::MAX.
OffsetOverflows(p, cur, add) == ~IsLargePhysical(p) /\ cur > I32_MAX - add

PrimitiveDefault(p) == IF p = "Boolean" THEN FALSE ELSE 0

\* MutablePrimitiveArray::try_push / MutableBooleanArray::try_push: a null slot
\* stores the element type's default.
PrimitiveTryPush(arr, v) ==
    Ok([arr EXCEPT !.values = Append(@, IF Len(v) = 0 THEN PrimitiveDefault(arr.phys)
                                                       ELSE v[1]),
                   !.validity = Append(@, Len(v) > 0)])

\* MutableUtf8Array::try_push / MutableBinaryArray::try_push
VarLenTryPush(arr, v) ==
    IF Len(v) = 0
    THEN Ok([arr EXCEPT !.offsets = Append(@, LastOffset(arr)),
                        !.validity = Append(@, FALSE)])
    ELSE IF OffsetOverflows(arr.phys, LastOffset(arr), ByteLen(v[1]))
         THEN Err(arr, OverflowError)
         ELSE Ok([arr EXCEPT !.values = @ \o v[1],
                             !.offsets = Append(@, LastOffset(arr) + ByteLen(v[1])),
                             !.validity = Append(@, TRUE)])

\* MutableListArray::try_push_valid: the new offset is the child's length now.
try_push_valid(arr) ==
    IF OffsetOverflows(arr.phys, ArrayLen(arr.values), 0)
    THEN Err(arr, OverflowError)
    ELSE Ok([arr EXCEPT !.offsets = Append(@, ArrayLen(arr.values)),
                        !.validity = Append(@, TRUE)])

\* MutableArray::push_null
push_null(arr) ==
    IF IsListPhysical(arr.phys)
    THEN [arr EXCEPT !.offsets = Append(@, LastOffset(arr)),
                     !.validity = Append(@, FALSE)]
    ELSE IF IsVarLenPhysical(arr.phys) THEN VarLenTryPush(arr, <<>>).arr
         ELSE PrimitiveTryPush(arr, <<>>).arr

\* try_push(Some(v)) on the builder of a flat layout
try_push(arr, v) ==
    IF IsVarLenPhysical(arr.phys) THEN VarLenTryPush(arr, <<v>>)
    ELSE PrimitiveTryPush(arr, <<v>>)

\* NaiveDateTime::timestamp_nanos
timestamp_nanos(v) == v.secs * NANOSECONDS + v.nanos

\* Datelike::num_days_from_ce(v) - EPOCH_DAYS_FROM_CE
days_since_epoch(v) == v - EPOCH_DAYS_FROM_CE

\* ------------------------------------------------------- ArrowSerialize
RECURSIVE arrow_serialize(_, _, _)
RECURSIVE serialize_children(_, _, _, _)
\* arrow_serialize with the row marker of a list pushed before its children.
arrow_serialize_MarkerFirst(T, v, arr) ==
    IF IsOption(T)
    THEN (IF Len(v) = 0 THEN Ok(push_null(arr))
                        ELSE arrow_serialize(Tail(T), v[1], arr))
    ELSE IF IsList(T)
         THEN LET m == try_push_valid(arr)
                  r == serialize_children(Tail(T), v, 1, m.arr.values)
              IN IF ~m.ok THEN m
                 ELSE IF r.ok THEN Ok([m.arr EXCEPT !.values = r.arr])
                      ELSE Err([m.arr EXCEPT !.values = r.arr], r.err)
         ELSE IF T[1] = "NaiveDateTime" THEN try_push(arr, timestamp_nanos(v))
              ELSE IF T[1] = "NaiveDate" THEN try_push(arr, days_since_epoch(v))
                   ELSE try_push(arr, v)

\* <T as ArrowSerialize>::arrow_serialize(v, array)
arrow_serialize(T, v, arr) ==
    IF IsOption(T)
    THEN (IF Len(v) = 0 THEN Ok(push_null(arr))
                        ELSE arrow_serialize(Tail(T), v[1], arr))
    ELSE IF IsList(T)
         THEN LET r == serialize_children(Tail(T), v, 1, arr.values)
              IN IF r.ok THEN try_push_valid([arr EXCEPT !.values = r.arr])
                         ELSE Err([arr EXCEPT !.values = r.arr], r.err)
         ELSE IF T[1] = "NaiveDateTime" THEN try_push(arr, timestamp_nanos(v))
              ELSE IF T[1] = "NaiveDate" THEN try_push(arr, days_since_epoch(v))
                   ELSE try_push(arr, v)

\* The `for i in v.iter() { arrow_serialize(i, values)?; }` loop of the list
\* implementations, from element i on.
serialize_children(T, vs, i, values) ==
    IF i > Len(vs) THEN Ok(values)
    ELSE LET r == arrow_serialize(T, vs[i], values)
         IN IF r.ok THEN serialize_children(T, vs, i + 1, r.arr) ELSE r

RECURSIVE as_arc(_)
\* MutableArray::as_arc: the builder's buffers become the finalized column; a
\* list finalizes its child with it.
as_arc(arr) ==
    IF IsListPhysical(arr.phys) THEN [arr EXCEPT !.values = as_arc(arr.values)]
    ELSE arr

\* ----------------------------------------------------- finalized arrays
\* Array::slice(offset, length)
slice(arr, offset, length) ==
    IF IsListPhysical(arr.phys) \/ IsVarLenPhysical(arr.phys)
    THEN [arr EXCEPT !.offsets = SubSeq(@, offset + 1, offset + length + 1),
                     !.validity = SubSeq(@, offset + 1, offset + length)]
    ELSE [arr EXCEPT !.values = SubSeq(@, offset + 1, offset + length),
                     !.validity = SubSeq(@, offset + 1, offset + length)]

\* acc followed by n bytes b, run-length coded.
AppendRun(acc, b, n) ==
    IF n = 0 THEN acc
    ELSE IF Len(acc) > 0 /\ acc[Len(acc)].b = b
         THEN [acc EXCEPT ![Len(acc)].n = @ + n]
         ELSE Append(acc, Run(b, n))

Min(a, b) == IF a < b THEN a ELSE b

Max(a, b) == IF a > b THEN a ELSE b

RECURSIVE SliceRuns(_, _, _, _, _, _)
\* The bytes [from, to) of buf, whose run i starts at byte pos.
SliceRuns(buf, i, pos, from, to, acc) ==
    IF i > Len(buf) \/ pos >= to THEN acc
    ELSE LET lo == Max(pos, from)
             hi == Min(pos + buf[i].n, to)
         IN SliceRuns(buf, i + 1, pos + buf[i].n, from, to,
                      IF hi > lo THEN AppendRun(acc, buf[i].b, hi - lo) ELSE acc)

\* &values[from..to]
SliceBytes(buf, from, to) == SliceRuns(buf, 1, 0, from, to, <<>>)

\* The element of slot i (1-based) of a finalized array, validity aside.
ValueAt(arr, i) ==
    IF IsListPhysical(arr.phys)
    THEN slice(arr.values, arr.offsets[i], arr.offsets[i + 1] - arr.offsets[i])
    ELSE IF IsVarLenPhysical(arr.phys)
         THEN SliceBytes(arr.values, arr.offsets[i], arr.offsets[i + 1])
         ELSE arr.values[i]

\* (&array).into_iter(): ZipValidity, one Option per slot.
into_iter(arr) ==
    [i \in 1..ArrayLen(arr) |-> IF arr.validity[i] THEN <<ValueAt(arr, i)>> ELSE <<>>]

\* <A as ArrowArray>::iter_from_array_ref(b): downcast_ref::<A>().unwrap()
\* panics when b is not an A.
iter_from_array_ref(p, b) ==
    IF b.phys = p THEN [panicked |-> FALSE, slots |-> into_iter(b)]
    ELSE [panicked |-> TRUE, slots |-> <<>>]

\* ----------------------------------------------------- ArrowDeserialize
Value(v) == [panicked |-> FALSE, val |-> v]

Panic == [panicked |-> TRUE, val |-> <<>>]

\* arrow2::temporal_conversions::timestamp_ns_to_datetime, for v >= 0
timestamp_ns_to_datetime(v) == DateTime(v \div NANOSECONDS, v % NANOSECONDS)

\* arrow2::temporal_conversions::date32_to_date
date32_to_date(v) == EPOCH_DAYS_FROM_CE + v

RECURSIVE arrow_deserialize(_, _)
RECURSIVE arrow_deserialize_internal(_, _)
RECURSIVE collect_slots(_, _, _, _)
RECURSIVE arrow_array_deserialize_iterator_internal(_, _)
\* <T as ArrowDeserialize>::arrow_deserialize(v): the Option it returns, or a
\* panic raised below it.
arrow_deserialize(T, v) ==
    IF IsOption(T)
    THEN LET r == arrow_deserialize_internal(T, v)
         IN IF r.panicked THEN Panic ELSE Value(<<r.val>>)
    ELSE IF IsList(T)
         THEN (IF Len(v) = 0 THEN Value(<<>>)
               ELSE LET r == arrow_array_deserialize_iterator_internal(Tail(T), v[1])
                    IN IF r.panicked THEN Panic ELSE Value(<<r.val>>))
         ELSE IF Len(v) = 0 THEN Value(<<>>)
              ELSE IF T[1] = "NaiveDateTime" THEN Value(<<timestamp_ns_to_datetime(v[1])>>)
                   ELSE IF T[1] = "NaiveDate" THEN Value(<<date32_to_date(v[1])>>)
                        ELSE Value(v)

\* <T as ArrowDeserialize>::arrow_deserialize_internal(v): the trait's default
\* unwraps arrow_deserialize; Option<T> overrides it with T's arrow_deserialize.
arrow_deserialize_internal(T, v) ==
    IF IsOption(T) THEN arrow_deserialize(Tail(T), v)
    ELSE LET r == arrow_deserialize(T, v)
         IN IF r.panicked \/ Len(r.val) = 0 THEN Panic ELSE Value(r.val[1])

\* The iterator's map(arrow_deserialize_internal), collected from slot i on.
collect_slots(T, slots, i, acc) ==
    IF i > Len(slots) THEN Value(acc)
    ELSE LET r == arrow_deserialize_internal(T, slots[i])
         IN IF r.panicked THEN Panic
            ELSE collect_slots(T, slots, i + 1, Append(acc, r.val))

\* arrow_array_deserialize_iterator_internal::<_, T>(b) drained into a Vec, as
\* the list implementations do.
arrow_array_deserialize_iterator_internal(T, b) ==
    LET it == iter_from_array_ref(ArrayType(T), b)
    IN IF it.panicked THEN Panic ELSE collect_slots(T, it.slots, 1, <<>>)

\* MismatchError with both data types appended to the message.
MismatchError_WithTypes(expected, found) ==
    <<"InvalidArgumentError", "Data type mismatch">> \o expected \o found

\* ArrowError::InvalidArgumentError("Data type mismatch".to_string())
MismatchError(expected, found) == <<"InvalidArgumentError", "Data type mismatch">>

\* TypeMismatch comparing the physical array types instead of the data types.
TypeMismatch_Physical(D, arr) == ArrayType(D) # arr.phys

\* The `if &ArrowType::data_type() != arr.data_type()` test of
\* arrow_array_deserialize_iterator_as_type.
TypeMismatch(D, arr) == data_type(D) # arr.data_type

\* ------------------------------------------------------------ the program
VARIABLES
    pc,         \* where the caller stands: "start", "extend", "encode_failed",
                \* "encoded", "mismatch", "iterating", "panicked", "collected"
    T,          \* the ArrowSerialize type of into_arrow / into_arrow_as_type
    input,      \* the native sequence handed to it
    pushed,     \* elements arrow_serialize has been called on
    arr,        \* the builder (its last contents once dropped; NoArray once consumed)
    finalized,  \* calls of as_arc
    encErr,     \* the error into_arrow returned
    column,     \* the finalized column into_arrow returned
    D,          \* the ArrowDeserialize type of try_into_iter / try_into_iter_as_type
    slots,      \* the typed iterator iter_from_array_ref returned
    out,        \* the native values collected so far
    downcasts,  \* calls of downcast_ref on the column
    reads,      \* elements pulled from the column's iterator
    decErr      \* the error try_into_iter returned

vars == <<pc, T, input, pushed, arr, finalized, encErr, column, D, slots, out,
          downcasts, reads, decErr>>

encVars == <<T, input, pushed, arr, finalized, encErr, column>>

decVars == <<D, slots, out, downcasts, reads, decErr>>

Init ==
    /\ pc = "start"
    /\ T \in Types
    /\ input \in Inputs(T)
    /\ pushed = 0
    /\ arr = NoArray
    /\ finalized = 0
    /\ encErr = <<>>
    /\ column = NoArray
    /\ D = <<>>
    /\ slots = <<>>
    /\ out = <<>>
    /\ downcasts = 0
    /\ reads = 0
    /\ decErr = <<>>

\* arrow_serialize_internal: let mut arr = T::new_array(); the reserve() that
\* follows in arrow_serialize_extend_internal changes capacity only.
NewArray ==
    /\ pc = "start"
    /\ arr' = new_array(T)
    /\ pc' = "extend"
    /\ UNCHANGED <<T, input, pushed, finalized, encErr, column>>
    /\ UNCHANGED decVars

\* SerializeNext without the `?`: a failed push is noted and the loop goes on.
SerializeNext_IgnoreError ==
    /\ pc = "extend"
    /\ pushed < Len(input)
    /\ LET r == arrow_serialize(T, input[pushed + 1], arr)
       IN /\ arr' = r.arr
          /\ pushed' = pushed + 1
          /\ encErr' = IF r.ok THEN encErr ELSE r.err
          /\ pc' = "extend"
    /\ UNCHANGED <<T, input, finalized, column>>
    /\ UNCHANGED decVars

\* One turn of the loop of arrow_serialize_extend_internal:
\* T::arrow_serialize(i, array)?; a failure returns at once and drops the builder.
SerializeNext ==
    /\ pc = "extend"
    /\ pushed < Len(input)
    /\ LET r == arrow_serialize(T, input[pushed + 1], arr)
       IN /\ arr' = r.arr
          /\ pushed' = pushed + 1
          /\ encErr' = r.err
          /\ pc' = IF r.ok THEN "extend" ELSE "encode_failed"
    /\ UNCHANGED <<T, input, finalized, column>>
    /\ UNCHANGED decVars

\* The loop is over: Ok(arr), then into_arrow's .as_arc() consumes the builder.
Finalize ==
    /\ pc = "extend"
    /\ pushed = Len(input)
    /\ column' = as_arc(arr)
    /\ arr' = NoArray
    /\ finalized' = finalized + 1
    /\ pc' = "encoded"
    /\ UNCHANGED <<T, input, pushed, encErr>>
    /\ UNCHANGED decVars

\* arrow_array_deserialize_iterator_as_type::<_, A>(column), data types differ:
\* Err(InvalidArgumentError).
DeserializeMismatch(A) ==
    /\ pc = "encoded"
    /\ TypeMismatch(A, column)
    /\ D' = A
    /\ decErr' = MismatchError(data_type(A), column.data_type)
    /\ pc' = "mismatch"
    /\ UNCHANGED <<slots, out, downcasts, reads>>
    /\ UNCHANGED encVars

\* arrow_array_deserialize_iterator_as_type::<_, A>(column), data types equal:
\* arrow_array_deserialize_iterator_internal downcasts the column and returns
\* the mapped iterator.
DeserializeIterator(A) ==
    /\ pc = "encoded"
    /\ ~TypeMismatch(A, column)
    /\ D' = A
    /\ downcasts' = downcasts + 1
    /\ LET it == iter_from_array_ref(ArrayType(A), column)
       IN /\ slots' = it.slots
          /\ pc' = IF it.panicked THEN "panicked" ELSE "iterating"
    /\ UNCHANGED <<out, reads, decErr>>
    /\ UNCHANGED encVars

\* collect() pulls the next element: D::arrow_deserialize_internal on the slot.
DeserializeNext ==
    /\ pc = "iterating"
    /\ reads < Len(slots)
    /\ reads' = reads + 1
    /\ LET r == arrow_deserialize_internal(D, slots[reads + 1])
       IN /\ out' = IF r.panicked THEN out ELSE Append(out, r.val)
          /\ pc' = IF r.panicked THEN "panicked" ELSE "iterating"
    /\ UNCHANGED <<D, slots, downcasts, decErr>>
    /\ UNCHANGED encVars

\* The iterator is exhausted: collect() returns Ok(out).
Collect ==
    /\ pc = "iterating"
    /\ reads = Len(slots)
    /\ pc' = "collected"
    /\ UNCHANGED decVars
    /\ UNCHANGED encVars

Next ==
    \/ NewArray
    \/ SerializeNext
    \/ Finalize
    \/ \E A \in Types : DeserializeMismatch(A)
    \/ \E A \in Types : DeserializeIterator(A)
    \/ DeserializeNext
    \/ Collect

Spec == Init /\ [][Next]_vars

\* ------------------------------------------------------------------ claims
\* try_into_iter / try_into_iter_as_type has returned, or panicked.
Decoded == pc \in {"mismatch", "panicked", "collected"}

\* A decode of the column as type D has been asked for.
DecodeAsked == Len(D) > 0

\* dt appears in the error value e.
Carries(e, dt) ==
    \E i \in 1..(Len(e) - Len(dt) + 1) : SubSeq(e, i, i + Len(dt) - 1) = dt

RECURSIVE SumLens(_, _)
\* Len(rows[1]) + ... + Len(rows[k])
SumLens(rows, k) == IF k = 0 THEN 0 ELSE SumLens(rows, k - 1) + Len(rows[k])

\* <<0, Len(rows[1]), Len(rows[1]) + Len(rows[2]), ...>> for the first k rows
CumulativeOffsets(rows, k) == [i \in 1..(k + 1) |-> SumLens(rows, i - 1)]

ListOfListTypes ==
    { <<"Vec", "Vec", "i32">>, <<"Option", "Vec", "Vec", "i32">>,
      <<"Vec", "Vec", "String">>, <<"Option", "Vec", "Vec", "String">> }

\* C1: for every scalar type and Option of it, decoding the column that
\* into_arrow returned, with the same type, succeeds and returns the input
\* sequence: same length, order and values, None entries included.
C1_RoundTrip ==
    (T \in ScalarTypes \cup OptionScalarTypes /\ D = T /\ Decoded)
        => (pc = "collected" /\ out = input)

\* C2: when the column's data type differs from the requested type's, decode
\* returns the type-mismatch error and nothing of the column is downcast, read
\* or decoded; the iterator exists only when the two data types are equal.
C2_MismatchDetected ==
    DecodeAsked =>
        IF data_type(D) # column.data_type
        THEN /\ pc = "mismatch"
             /\ decErr[1] = "InvalidArgumentError"
             /\ downcasts = 0 /\ reads = 0
             /\ slots = <<>> /\ out = <<>>
        ELSE /\ pc \in {"iterating", "panicked", "collected"}
             /\ decErr = <<>>
             /\ downcasts = 1

\* C2 witness: the spec's example, a non-empty 32-bit integer column asked for
\* as UTF-8 strings.
C2_Witness ==
    /\ pc = "mismatch"
    /\ column.data_type = <<"Int32">>
    /\ ArrayLen(column) > 0
    /\ D = <<"String">>

\* C3: once the data types are equal, pulling every element never panics,
\* whether or not the column has null slots and whether or not D is optional.
C3_DecodeNeverFails ==
    (DecodeAsked /\ data_type(D) = column.data_type) => pc # "panicked"

\* C4: the builder into_arrow_as_type::<T> makes has the layout T's
\* deserializer reads, and the finalized column records T's declared data type.
C4_CapabilityPairBinding ==
    /\ pc = "extend" => arr.phys = ArrayType(T)
    /\ pc = "encoded" => (column.phys = ArrayType(T) /\ column.data_type = data_type(T))

\* C5: a sequence of Option<scalar> encodes to one slot per element, in order,
\* invalid exactly for None; decoded with the same type it gives None for each
\* invalid slot and Some(x) for each valid one.
C5_NullPropagation ==
    T \in OptionScalarTypes =>
        /\ pc = "encoded" =>
              /\ ArrayLen(column) = Len(input)
              /\ \A i \in 1..Len(input) : column.validity[i] = (Len(input[i]) > 0)
        /\ (D = T /\ Decoded) =>
              /\ pc = "collected"
              /\ Len(out) = Len(input)
              /\ \A i \in 1..Len(input) : out[i] = input[i]

\* C6 (states): elements are pushed in input order; after a failed push the
\* call has returned that failure, with no column and no finalize; the builder
\* is finalized at most once, and then every element was pushed successfully.
C6_States ==
    /\ pc = "extend" => (ArrayLen(arr) = pushed /\ encErr = <<>> /\ finalized = 0)
    /\ pc = "encode_failed" =>
          /\ encErr = OverflowError
          /\ pushed >= 1 /\ ArrayLen(arr) = pushed - 1
          /\ finalized = 0 /\ column.phys = "none"
    /\ finalized <= 1
    /\ finalized = 1 =>
          /\ pushed = Len(input) /\ encErr = <<>>
          /\ ArrayLen(column) = Len(input)
    /\ column.phys # "none" => finalized = 1

\* C6 (steps): nothing happens after a failed push; the finalize step is taken
\* only from a builder every element was pushed onto.
C6_Steps ==
    /\ pc = "encode_failed" => UNCHANGED vars
    /\ finalized' # finalized =>
          (pc = "extend" /\ pushed = Len(input) /\ encErr = <<>> /\ finalized = 0)
    /\ pushed' # pushed => (pushed' = pushed + 1 /\ encErr = <<>>)

\* C6: a failed element push ends the bulk encode: no later element is
\* pushed, the builder is never finalized, the first failure is returned and
\* no column is; the builder is finalized exactly once, after all pushes.
C6_BulkEncodeFailure == []C6_States /\ [][C6_Steps]_vars

\* C6 witness: a push failed with elements still to come.
C6_Witness ==
    /\ pc = "encode_failed"
    /\ pushed >= 2
    /\ pushed < Len(input)

\* C7: a sequence of (optional) lists of lists, encoded and decoded with the
\* same type, comes back exactly: empty inner lists stay empty, absent outer
\* entries stay absent.
C7_NestedRoundTrip ==
    (T \in ListOfListTypes /\ D = T /\ Decoded) => (pc = "collected" /\ out = input)

C9_OffsetWidth ==
    /\ (T = <<"LargeString">> /\ D = <<"LargeString">> /\ Decoded)
          => (pc = "collected" /\ out = input)
    /\ (DecodeAsked /\ {T, D} = {<<"LargeString">>, <<"String">>})
          => /\ pc = "mismatch"
             /\ decErr = <<"InvalidArgumentError", "Data type mismatch">>
             /\ downcasts = 0 /\ reads = 0 /\ out = <<>>

\* C9 witness: a non-empty LargeString column asked for as String.
C9_Witness ==
    /\ T = <<"LargeString">>
    /\ D = <<"String">>
    /\ pc = "mismatch"
    /\ column.phys = "Utf8<i64>"
    /\ Len(input) = MaxLen
    /\ input[1] = BytesAB

\* C10: after n successful row encodes of a list type the outer builder has n
\* valid rows, the child builder has every child of those rows, and the outer
\* offsets are the cumulative row lengths; a row whose child push failed
\* leaves no row marker.
C10_TwoPhasePush ==
    (IsList(T) /\ pc \in {"extend", "encode_failed"}) =>
        LET n == IF pc = "extend" THEN pushed ELSE pushed - 1
        IN /\ ArrayLen(arr) = n
           /\ \A i \in 1..n : arr.validity[i]
           /\ arr.offsets = CumulativeOffsets(input, n)
           /\ pc = "extend" => ArrayLen(arr.values) = SumLens(input, n)
           /\ pc = "encode_failed" =>
                 /\ ArrayLen(arr.values) >= SumLens(input, n)
                 /\ ArrayLen(arr.values) < SumLens(input, pushed)

\* C10 witness: rows of lengths 2 and 0 give offsets [0, 2, 2].
C10_Witness ==
    /\ T = <<"Vec", "i32">>
    /\ pc = "extend"
    /\ pushed = 2
    /\ arr.offsets = <<0, 2, 2>>
    /\ ArrayLen(arr.values) = 2

\* C11: decoding a column as Option<U>, U itself optional or not, gives None
\* for an absent slot and Some(U's decode of the slot) for a present one, so a
\* None encoded through the optional wrapper comes back as None, never as
\* Some of an absent value.
C11_AbsenceOnce ==
    (DecodeAsked /\ IsOption(D) /\ pc \in {"iterating", "collected"}) =>
        \A i \in 1..Len(out) :
            /\ Len(slots[i]) = 0 => Len(out[i]) = 0
            /\ Len(slots[i]) > 0 =>
                  /\ Len(out[i]) = 1
                  /\ out[i][1] = arrow_deserialize_internal(Tail(D), slots[i]).val
            /\ (T = D /\ Len(input[i]) = 0) => Len(out[i]) = 0

====
